---- MODULE Spec2Model ----
(***************************************************************************)
(* Model of the AI trading tracker: the polling bot (src/bot.py) and the   *)
(* webhook bot (src/webhook_bot.py).  Both share the pipeline              *)
(*   message -> GeminiExtractor.extract -> SheetsManager.get_today_pnl     *)
(*           -> RiskManager.validate_trade -> SheetsManager.append_trade   *)
(* and differ in the extractor, the field completion and the risk rules.   *)
(*                                                                         *)
(* Money is kept as an integer number of thousandths of a rupee,            *)
(* so that round(x, 2) is a real rounding and not the identity.            *)
(* Texts are sequences of tokens: "F" is the code fence ```, "J" the       *)
(* four-character language tag json, " " a whitespace character, "x" a run *)
(* of other characters (letters, digits, quotes, colons); "{", "}", "]"    *)
(* and "," stand for themselves.                                           *)
(***************************************************************************)
EXTENDS Integers, Sequences, FiniteSets, TLC

VARIABLES
    variant,      \* which program runs: "polling" (bot.py) or "webhook" (webhook_bot.py)
    text,         \* sanitizer: the raw oracle response given to clean_json_response
    cleaned,      \* sanitizer: the result of the last pass
    passes,       \* sanitizer: number of passes of clean_json_response applied so far
    parsed,       \* extractor: the value json.loads returned for the oracle response
    extracted,    \* extractor: what extract did with it (a record returned, or an exception)
    trade_data,   \* risk manager: the trade record given to validate_trade
    today_pnl,    \* risk manager: today's total before this trade
    risk_check,   \* risk manager: what validate_trade returned (or raised)
    ledger,       \* bot: the rows of the "Trade Journal" worksheet, in order
    running,      \* bot: the messages whose handler the event loop is running: one or none
    pc,           \* bot: per message, where its handle_trade_message coroutine stands
    attempt,      \* bot: per message, the loop variable of extract's retry loop
    oracle_log,   \* bot: per message, how each oracle invocation made for it ended
    loaded,       \* bot: per message, the value json.loads returned last
    extract_result, \* bot: per message, the record extract returned
    verdict,      \* bot: per message, what validate_trade returned
    error,        \* bot: per message, the exception the handler caught ("" for none)
    outcome,      \* bot: per message, "logged", "blocked" or "error" once decided
    replies       \* bot: per message, the replies sent to the user, in order

sanVars == <<text, cleaned, passes>>
extVars == <<parsed, extracted>>
riskVars == <<trade_data, today_pnl, risk_check>>
botVars == <<ledger, running, pc, attempt, oracle_log, loaded, extract_result, verdict,
             error, outcome, replies>>
vars == <<variant, sanVars, extVars, riskVars, botVars>>

(***************************************************************************)
(* Bounds of the model.                                                    *)
(***************************************************************************)
MaxLen == 5
MaxMsgs == 2

Variants == {"polling", "webhook"}

Alphabet == {"{", "}", ",", "]", " ", "x", "F", "J"}

Texts == UNION {[1..n -> Alphabet] : n \in 0..MaxLen}

\* every text, bare or preceded by noise
InputTexts == Texts \cup {<<"x">> \o t : t \in Texts}

(***************************************************************************)
(* Python string helpers on token sequences.                               *)
(***************************************************************************)
IsSpace(c) == c = " "

RECURSIVE lstrip(_)
lstrip(s) == IF s # <<>> /\ IsSpace(Head(s)) THEN lstrip(Tail(s)) ELSE s

RECURSIVE rstrip(_)
rstrip(s) ==
    IF s # <<>> /\ IsSpace(s[Len(s)]) THEN rstrip(SubSeq(s, 1, Len(s) - 1)) ELSE s

\* str.strip()
strip(s) == rstrip(lstrip(s))

\* str.startswith(c) for a one-token prefix
startswith(s, c) == s # <<>> /\ Head(s) = c

\* c in s
contains(s, c) == \E i \in 1..Len(s) : s[i] = c

\* str.find(c): the first index holding c (1-based), 0 when there is none
find(s, c) ==
    IF contains(s, c) THEN CHOOSE i \in 1..Len(s) : s[i] = c /\ \A j \in 1..(i - 1) : s[j] # c
    ELSE 0

\* str.split('```'): the pieces between the fences, in order
RECURSIVE split(_, _)
split(s, c) ==
    IF ~contains(s, c) THEN <<s>>
    ELSE LET i == find(s, c)
         IN <<SubSeq(s, 1, i - 1)>> \o split(SubSeq(s, i + 1, Len(s)), c)

(***************************************************************************)
(* GeminiExtractor.clean_json_response, webhook_bot.py 65-103.             *)
(***************************************************************************)
\* lines 70-79: the first part that (stripped) starts with the json tag or with
\* an opening brace replaces the text; with no such part the text is kept.
RECURSIVE select_part(_, _, _)
select_part(parts, i, txt) ==
    IF i > Len(parts) THEN txt
    ELSE LET part == strip(parts[i])
         IN IF startswith(part, "J") THEN strip(Tail(part))
            ELSE IF startswith(part, "{") THEN strip(part)
            ELSE select_part(parts, i + 1, txt)

remove_code_blocks(txt) ==
    IF contains(txt, "F") THEN select_part(split(txt, "F"), 1, txt) ELSE txt

\* lines 88-95: brace depth after scanning txt[start_idx..i]
RECURSIVE brace_count(_, _, _)
brace_count(txt, start_idx, i) ==
    IF i < start_idx THEN 0
    ELSE brace_count(txt, start_idx, i - 1)
         + (IF txt[i] = "{" THEN 1 ELSE IF txt[i] = "}" THEN -1 ELSE 0)

\* a scan that stops at the first closing brace, whatever the depth
end_brace_uncounted(txt, start_idx) ==
    LET closes == {i \in start_idx..Len(txt) : txt[i] = "}"}
    IN IF closes = {} THEN 0
       ELSE CHOOSE i \in closes : \A j \in closes : i <= j

\* lines 87-95: the index of the closing brace that first brings the count back
\* to zero (the loop breaks there), 0 when the loop ends without a break.
end_brace(txt, start_idx) ==
    LET closes == {i \in start_idx..Len(txt) :
                      txt[i] = "}" /\ brace_count(txt, start_idx, i) = 0}
    IN IF closes = {} THEN 0
       ELSE CHOOSE i \in closes : \A j \in closes : i <= j

\* lines 82-98
brace_slice(txt) ==
    LET start_idx == find(txt, "{")
        end_idx == end_brace(txt, start_idx)
    IN IF end_idx >= start_idx /\ end_idx > 0 THEN SubSeq(txt, start_idx, end_idx) ELSE txt

\* line 101: re.sub(r',(\s*[}\]])', r'\1', text): the first non-space token at or
\* after position i
RECURSIVE next_non_space(_, _)
next_non_space(txt, i) ==
    IF i > Len(txt) THEN "eof"
    ELSE IF IsSpace(txt[i]) THEN next_non_space(txt, i + 1)
    ELSE txt[i]

is_trailing_comma(txt, i) ==
    txt[i] = "," /\ next_non_space(txt, i + 1) \in {"}", "]"}

RECURSIVE drop_commas(_, _)
drop_commas(txt, i) ==
    IF i > Len(txt) THEN <<>>
    ELSE (IF is_trailing_comma(txt, i) THEN <<>> ELSE <<txt[i]>>) \o drop_commas(txt, i + 1)

remove_trailing_commas(txt) == drop_commas(txt, 1)

\* a sanitizer without the early return of line 85: the comma repair is applied
\* to a text without an opening brace as well
clean_json_response_repairing(txt) ==
    LET selected == remove_code_blocks(txt)
    IN IF find(selected, "{") = 0 THEN remove_trailing_commas(selected)
       ELSE remove_trailing_commas(brace_slice(selected))

clean_json_response(txt) ==
    LET selected == remove_code_blocks(txt)
    IN IF find(selected, "{") = 0 THEN selected
       ELSE remove_trailing_commas(brace_slice(selected))

(***************************************************************************)
(* JSON values and Python dicts.  A value is a record of one shape: a      *)
(* number n (thousandths of a rupee for money, a plain count for the       *)
(* quantity), a string s, null, or the mark of a key the dict lacks.       *)
(***************************************************************************)
Num(n) == [k |-> "num", n |-> n, s |-> ""]
Str(s) == [k |-> "str", n |-> 0, s |-> s]
Null == [k |-> "null", n |-> 0, s |-> ""]
Absent == [k |-> "absent", n |-> 0, s |-> ""]

IsNum(v) == v.k = "num"

\* Python truthiness: None, 0 and "" are falsy
Truthy(v) == (v.k = "num" /\ v.n # 0) \/ (v.k = "str" /\ v.s # "")

\* dict.get(key): None for a missing key
get(d, key) == IF d[key] = Absent THEN Null ELSE d[key]

\* dict.setdefault(key, default): only a missing key is set, a null is kept
setdefault(d, key, default) == IF d[key] = Absent THEN [d EXCEPT ![key] = default] ELSE d

Keys == {"date", "symbol", "instrument_type", "trade_direction", "buy_price",
         "sell_price", "quantity", "capital_invested", "profit_loss", "emotion",
         "raw_message"}

\* the empty dict {}
EmptyDict == [key \in Keys |-> Absent]

\* datetime.now().strftime('%Y-%m-%d')
Today == Str("today")

\* the text of the message being processed
RawMessage == Str("raw")

\* round(x, 2) on thousandths: to the nearest hundredth, a tie to the even one
round2(x) ==
    LET q == x \div 10
        r == x % 10
    IN IF r < 5 THEN 10 * q
       ELSE IF r > 5 THEN 10 * (q + 1)
       ELSE IF q % 2 = 0 THEN 10 * q ELSE 10 * (q + 1)

\* what a call returns: a value, or the exception it raised
Returned(v) == [raised |-> "", value |-> v]
Raised(e) == [raised |-> e, value |-> EmptyDict]

(***************************************************************************)
(* src/config.py 12-15, money in thousandths of a rupee.                   *)
(***************************************************************************)
MAX_LOSS_PER_DAY == -5000000
MAX_LOSS_PER_TRADE == -2000000
TRADING_CAPITAL == 100000000
MAX_RISK_PCT == 2

(***************************************************************************)
(* GeminiExtractor.extract after json.loads: the field completion.         *)
(* A parsed response is [kind |-> "dict" | "list" | "scalar", items |-> the *)
(* dict, the elements of the list, or nothing].                            *)
(***************************************************************************)
ParsedDict(d) == [kind |-> "dict", items |-> <<d>>]
ParsedList(ds) == [kind |-> "list", items |-> ds]
ParsedScalar == [kind |-> "scalar", items |-> <<>>]

\* (sell - buy) * quantity and its mirror; arithmetic on a non-number raises
all_numbers(buy, sell, qty) == IsNum(buy) /\ IsNum(sell) /\ IsNum(qty)

\* bot.py 169-193: derive P&L when profit_loss is None or == 0
polling_pnl(d) ==
    LET profit_loss == get(d, "profit_loss")
        buy_price == get(d, "buy_price")
        sell_price == get(d, "sell_price")
        quantity == get(d, "quantity")
    IN IF profit_loss = Null \/ (IsNum(profit_loss) /\ profit_loss.n = 0)
       THEN IF Truthy(buy_price) /\ Truthy(sell_price) /\ Truthy(quantity)
            THEN IF all_numbers(buy_price, sell_price, quantity)
                 THEN Returned([d EXCEPT !["profit_loss"] =
                          Num(round2((sell_price.n - buy_price.n) * quantity.n))])
                 ELSE Raised("TypeError")
            ELSE Returned([d EXCEPT !["profit_loss"] = Num(0)])
       ELSE Returned(d)

\* bot.py 195-202
polling_defaults(d) ==
    LET d1 == [d EXCEPT !["raw_message"] = RawMessage]
        d2 == setdefault(d1, "date", Today)
        d3 == setdefault(d2, "symbol", Str("UNKNOWN"))
        d4 == setdefault(d3, "instrument_type", Str("Equity"))
    IN setdefault(d4, "trade_direction", Str("Unknown"))

\* bot.py 162-204
polling_complete(p) ==
    IF p.kind = "scalar" THEN Raised("AttributeError")
    ELSE LET d == IF p.kind = "list"
                  THEN (IF p.items # <<>> THEN p.items[1] ELSE EmptyDict)
                  ELSE p.items[1]
             r == polling_pnl(d)
         IN IF r.raised # "" THEN r ELSE Returned(polling_defaults(r.value))

\* the revision that derives whenever the prices are there
webhook_pnl_overriding(d) ==
    LET buy == get(d, "buy_price")
        sell == get(d, "sell_price")
        qty == get(d, "quantity")
    IN IF Truthy(buy) /\ Truthy(sell) /\ Truthy(qty) /\ all_numbers(buy, sell, qty)
       THEN Returned([d EXCEPT !["profit_loss"] = Num(round2((sell.n - buy.n) * qty.n))])
       ELSE IF ~Truthy(get(d, "profit_loss")) THEN Returned([d EXCEPT !["profit_loss"] = Num(0)])
       ELSE Returned(d)

\* webhook_bot.py 142-154: derive P&L when profit_loss is falsy
webhook_pnl(d) ==
    LET buy == get(d, "buy_price")
        sell == get(d, "sell_price")
        qty == get(d, "quantity")
    IN IF ~Truthy(get(d, "profit_loss")) \/ d["profit_loss"] = Null
       THEN IF Truthy(buy) /\ Truthy(sell) /\ Truthy(qty)
            THEN IF all_numbers(buy, sell, qty)
                 THEN LET pnl == IF get(d, "trade_direction") = Str("Short")
                                 THEN (buy.n - sell.n) * qty.n
                                 ELSE (sell.n - buy.n) * qty.n
                      IN Returned([d EXCEPT !["profit_loss"] = Num(round2(pnl))])
                 ELSE Raised("TypeError")
            ELSE Returned([d EXCEPT !["profit_loss"] = Num(0)])
       ELSE Returned(d)

\* webhook_bot.py 156-161
webhook_defaults(d) ==
    LET d1 == [d EXCEPT !["date"] = Today, !["raw_message"] = RawMessage]
        d2 == setdefault(d1, "symbol", Str("UNKNOWN"))
        d3 == setdefault(d2, "instrument_type", Str("Equity"))
    IN setdefault(d3, "trade_direction", Str("Long"))

\* webhook_bot.py 139-163: a list or a scalar has no .get
webhook_complete(p) ==
    IF p.kind # "dict" THEN Raised("AttributeError")
    ELSE LET r == webhook_pnl(p.items[1])
         IN IF r.raised # "" THEN r ELSE Returned(webhook_defaults(r.value))

complete(v, p) == IF v = "polling" THEN polling_complete(p) ELSE webhook_complete(p)

(***************************************************************************)
(* RiskManager.validate_trade: bot.py 218-261, webhook_bot.py 185-201.     *)
(***************************************************************************)
AdverseEmotions == {"FOMO", "Revenge", "Fear", "Greed"}

Abs(x) == IF x < 0 THEN -x ELSE x

\* Check 1, bot.py 228-231, webhook_bot.py 192-193
check_trade_loss(pnl) ==
    IF pnl < MAX_LOSS_PER_TRADE THEN <<"trade_loss">> ELSE <<>>

\* Check 2, bot.py 234-242, webhook_bot.py 195-199
block_trade_at_limit(projected_pnl) == projected_pnl <= MAX_LOSS_PER_DAY

\* a comparison with twice the limit
block_trade_doubled(projected_pnl) == projected_pnl < 2 * MAX_LOSS_PER_DAY

block_trade(projected_pnl) == projected_pnl < MAX_LOSS_PER_DAY

check_daily_loss(projected_pnl) ==
    IF block_trade(projected_pnl) THEN <<"daily_breach", "stop_trading">> ELSE <<>>

\* Check 3, bot.py 245-250: abs(pnl / TRADING_CAPITAL * 100) > MAX_RISK_PCT
check_risk_pct(d, pnl) ==
    IF Truthy(get(d, "capital_invested")) /\ Abs(pnl) * 100 > MAX_RISK_PCT * TRADING_CAPITAL
    THEN <<"risk_pct">> ELSE <<>>

\* Check 4, bot.py 253-255
check_emotion(d) ==
    LET emotion == get(d, "emotion")
    IN IF Truthy(emotion) /\ emotion.k = "str" /\ emotion.s \in AdverseEmotions
       THEN <<"emotion">> ELSE <<>>

NoDecision == [raised |-> "", valid |-> FALSE, warnings |-> <<>>, today_pnl |-> 0]

\* comparing a string or None with a float raises TypeError
validate_trade(v, d, today) ==
    IF ~IsNum(d["profit_loss"]) THEN [NoDecision EXCEPT !.raised = "TypeError"]
    ELSE LET pnl == d["profit_loss"].n
             projected_pnl == today + pnl
         IN [raised |-> "",
             valid |-> ~block_trade(projected_pnl),
             warnings |-> check_trade_loss(pnl) \o check_daily_loss(projected_pnl)
                          \o (IF v = "polling"
                              THEN check_risk_pct(d, pnl) \o check_emotion(d)
                              ELSE <<>>),
             today_pnl |-> projected_pnl]

(***************************************************************************)
(* The inputs the pure functions are applied to.                           *)
(***************************************************************************)
NoText == <<"none">>
NoParsed == [kind |-> "none", items |-> <<>>]
NoResult == Raised("not called")

\* the dicts the oracle may answer with
Dicts ==
    {[date |-> dt, symbol |-> sy, instrument_type |-> it, trade_direction |-> td,
      buy_price |-> bp, sell_price |-> sp, quantity |-> q, capital_invested |-> ci,
      profit_loss |-> pl, emotion |-> em, raw_message |-> Absent] :
        dt \in {Absent, Str("other")},
        sy \in {Absent, Null, Str("SUZLON")},
        it \in {Absent, Null, Str("Option")},
        td \in {Absent, Null, Str("Long"), Str("Short")},
        bp \in {Null, Num(42503), Num(44000)},
        sp \in {Null, Num(42503), Num(44000)},
        q \in {Absent, Null, Num(0), Num(3)},
        ci \in {Null, Num(10000000)},
        pl \in {Absent, Null, Num(0), Num(3000000), Num(-1500000), Str("3000")},
        em \in {Null, Str("FOMO")}}

\* a direct trade with every price present and no stated profit or loss
DirectTrade(td) ==
    [EmptyDict EXCEPT !["trade_direction"] = td, !["buy_price"] = Num(42503),
                      !["sell_price"] = Num(44000), !["quantity"] = Num(3),
                      !["profit_loss"] = Null]

ParsedValues ==
    {ParsedDict(d) : d \in Dicts}
    \cup {ParsedList(<<>>), ParsedScalar}
    \cup {ParsedList(<<DirectTrade(td)>>) : td \in {Str("Long"), Str("Short")}}

\* the completed records validate_trade is given
TradeRecords ==
    {[polling_defaults(EmptyDict) EXCEPT !["profit_loss"] = pl,
                                         !["capital_invested"] = ci,
                                         !["emotion"] = em] :
        pl \in {Num(-6000000), Num(-5000000), Num(-3000000), Num(-2000001),
                Num(-2000000), Num(-1000000), Num(0), Num(2500000), Str("3000")},
        ci \in {Absent, Null, Num(0), Num(10000000)},
        em \in {Absent, Null, Str("Calm"), Str("FOMO"), Str("Revenge"), Str("Fear"),
                Str("Greed")}}

DailyTotals == {-5000000, -4000000, -3000000, -1, 0, 1000000}

BotIdle ==
    /\ ledger = <<>>
    /\ running = {}
    /\ pc = <<>>
    /\ attempt = <<>>
    /\ oracle_log = <<>>
    /\ loaded = <<>>
    /\ extract_result = <<>>
    /\ verdict = <<>>
    /\ error = <<>>
    /\ outcome = <<>>
    /\ replies = <<>>

SanitizeIdle == text = <<>> /\ cleaned = NoText /\ passes = 0
ExtractIdle == parsed = NoParsed /\ extracted = NoResult
RiskIdle == trade_data = EmptyDict /\ today_pnl = 0 /\ risk_check = NoDecision

(***************************************************************************)
(* SheetsManager: the ledger.  A row keeps the columns the program reads   *)
(* back (Date, P&L) and the raw message, here the number of the message.   *)
(***************************************************************************)
\* bot.py 45-76, webhook_bot.py 29-48: the row append_trade builds
trade_row(d, m) == [Date |-> d["date"], PnL |-> d["profit_loss"], raw_message |-> m]

RECURSIVE sum_today(_)
sum_today(rows) ==
    IF rows = <<>> THEN 0
    ELSE (IF Head(rows).Date = Today /\ IsNum(Head(rows).PnL) THEN Head(rows).PnL.n ELSE 0)
         + sum_today(Tail(rows))

\* bot.py 79-92, webhook_bot.py 51-57: a failed read of the sheet counts as 0.0
get_today_pnl(rows, read_fails) == IF read_fails THEN 0 ELSE sum_today(rows)

(***************************************************************************)
(* TradingBot.handle_trade_message: bot.py 299-339, webhook_bot.py 233-251.*)
(* A coroutine gives the event loop away only at an await (the replies);   *)
(* everything between two awaits runs with no other handler in between.    *)
(***************************************************************************)
Msgs == 1..MaxMsgs

\* webhook_bot.py 119
max_retries == 2

retry_budget_one_more(v) == IF v = "webhook" THEN max_retries + 1 ELSE 1

\* webhook_bot.py 120: range(max_retries); bot.py 151-212 calls the oracle once
retry_budget(v) == IF v = "webhook" THEN max_retries ELSE 1

\* bot.py 206-209 raises ValueError, webhook_bot.py 165-171 re-raises
parse_error(v) == IF v = "polling" THEN "ValueError" ELSE "JSONDecodeError"

\* what the oracle may answer a message with
BotDicts ==
    {[EmptyDict EXCEPT !["profit_loss"] = Num(-3000000)],
     [EmptyDict EXCEPT !["profit_loss"] = Str("3000")],
     DirectTrade(Str("Short"))}

OracleResponses ==
    {[kind |-> "api_error", parsed |-> NoParsed], [kind |-> "garbage", parsed |-> NoParsed]}
    \cup {[kind |-> "json", parsed |-> pv] :
            pv \in {ParsedDict(d) : d \in BotDicts}
                   \cup {ParsedList(<<>>), ParsedScalar,
                         ParsedList(<<[EmptyDict EXCEPT !["profit_loss"] = Num(-3000000)]>>)}}

\* rows the worksheet may hold when the bot starts
InitialLedgers ==
    {<<>>, <<[Date |-> Str("other"), PnL |-> Num(-3000000), raw_message |-> 0]>>}

InFlight(m) == pc[m] \notin {"pending", "done"}

\* an except clause that only prints: the handler ends without a reply
Caught_swallowed(m, e) ==
    /\ error' = [error EXCEPT ![m] = e]
    /\ outcome' = outcome
    /\ pc' = [pc EXCEPT ![m] = "done"]
    /\ running' = {}

\* the except clause of the handler: bot.py 336-339, webhook_bot.py 249-251
Caught(m, e) ==
    /\ error' = [error EXCEPT ![m] = e]
    /\ outcome' = [outcome EXCEPT ![m] = "error"]
    /\ pc' = [pc EXCEPT ![m] = "reply"]
    /\ running' = {}

\* bot.py 301-305, webhook_bot.py 234-236: the handler starts and awaits the
\* "Processing..." reply.  run_polling (bot.py 359) hands the updates over one
\* after the other; handle_webhook (webhook_bot.py 290-298) is a task per request.
Receive(m) ==
    /\ running = {}
    /\ pc[m] = "pending"
    /\ variant = "polling" => \A o \in Msgs : ~InFlight(o)
    /\ pc' = [pc EXCEPT ![m] = "processing"]
    /\ replies' = [replies EXCEPT ![m] = Append(@, "processing")]
    /\ UNCHANGED <<variant, sanVars, extVars, riskVars, ledger, running, attempt,
                   oracle_log, loaded, extract_result, verdict, error, outcome>>

\* a resumption that does not wait for the running handler to reach its next
\* await, as a thread per handler would
Resume_unlocked(m) ==
    /\ pc[m] = "processing"
    /\ running' = {m}
    /\ pc' = [pc EXCEPT ![m] = "extract"]
    /\ UNCHANGED <<variant, sanVars, extVars, riskVars, ledger, attempt, oracle_log,
                   loaded, extract_result, verdict, error, outcome, replies>>

\* the await returns and the handler enters extract
Resume(m) ==
    /\ running = {}
    /\ pc[m] = "processing"
    /\ running' = {m}
    /\ pc' = [pc EXCEPT ![m] = "extract"]
    /\ UNCHANGED <<variant, sanVars, extVars, riskVars, ledger, attempt, oracle_log,
                   loaded, extract_result, verdict, error, outcome, replies>>

\* bot.py 151-212, webhook_bot.py 119-174: one invocation of the oracle and what
\* extract does with the answer
OracleCall(m) ==
    /\ running = {m}
    /\ pc[m] = "extract"
    /\ \E resp \in OracleResponses :
        /\ oracle_log' = [oracle_log EXCEPT ![m] = Append(@, resp.kind)]
        /\ IF resp.kind = "api_error"
           THEN /\ Caught(m, "APIError")
                /\ UNCHANGED <<attempt, loaded, extract_result>>
           ELSE IF resp.kind = "garbage"
           THEN IF attempt[m] < retry_budget(variant) - 1
                THEN /\ attempt' = [attempt EXCEPT ![m] = @ + 1]
                     /\ UNCHANGED <<running, pc, loaded, extract_result, error, outcome>>
                ELSE /\ Caught(m, parse_error(variant))
                     /\ UNCHANGED <<attempt, loaded, extract_result>>
           ELSE LET r == complete(variant, resp.parsed)
                IN /\ loaded' = [loaded EXCEPT ![m] = resp.parsed]
                   /\ IF r.raised # ""
                      THEN /\ Caught(m, r.raised)
                           /\ UNCHANGED <<attempt, extract_result>>
                      ELSE /\ extract_result' = [extract_result EXCEPT ![m] = r]
                           /\ pc' = [pc EXCEPT ![m] = "risk"]
                           /\ UNCHANGED <<running, attempt, error, outcome>>
    /\ UNCHANGED <<variant, sanVars, extVars, riskVars, ledger, verdict, replies>>

saves_always(rc) == TRUE

\* bot.py 313, webhook_bot.py 241: if risk_check['valid']
saves(rc) == rc.valid

\* bot.py 309-313, webhook_bot.py 238-241: read today's total and decide
RiskCheck(m) ==
    /\ running = {m}
    /\ pc[m] = "risk"
    /\ \E read_fails \in BOOLEAN :
        LET rc == validate_trade(variant, extract_result[m].value,
                                 get_today_pnl(ledger, read_fails))
        IN IF rc.raised # ""
           THEN /\ Caught(m, rc.raised)
                /\ UNCHANGED verdict
           ELSE /\ verdict' = [verdict EXCEPT ![m] = rc]
                /\ IF saves(rc)
                   THEN /\ pc' = [pc EXCEPT ![m] = "save"]
                        /\ UNCHANGED <<running, error, outcome>>
                   ELSE /\ pc' = [pc EXCEPT ![m] = "reply"]
                        /\ outcome' = [outcome EXCEPT ![m] = "blocked"]
                        /\ running' = {}
                        /\ UNCHANGED error
    /\ UNCHANGED <<variant, sanVars, extVars, riskVars, ledger, attempt, oracle_log,
                   loaded, extract_result, replies>>

\* bot.py 314, webhook_bot.py 242: append_trade, whose append_row may fail
AppendTrade(m) ==
    /\ running = {m}
    /\ pc[m] = "save"
    /\ \E append_fails \in BOOLEAN :
        IF append_fails
        THEN /\ Caught(m, "APIError")
             /\ UNCHANGED ledger
        ELSE /\ ledger' = Append(ledger, trade_row(extract_result[m].value, m))
             /\ outcome' = [outcome EXCEPT ![m] = "logged"]
             /\ pc' = [pc EXCEPT ![m] = "reply"]
             /\ running' = {}
             /\ UNCHANGED error
    /\ UNCHANGED <<variant, sanVars, extVars, riskVars, attempt, oracle_log, loaded,
                   extract_result, verdict, replies>>

\* bot.py 329, 334, 338, webhook_bot.py 246, 248, 250: the final reply
Reply(m) ==
    /\ running = {}
    /\ pc[m] = "reply"
    /\ replies' = [replies EXCEPT ![m] = Append(@, outcome[m])]
    /\ pc' = [pc EXCEPT ![m] = "done"]
    /\ UNCHANGED <<variant, sanVars, extVars, riskVars, ledger, running, attempt,
                   oracle_log, loaded, extract_result, verdict, error, outcome>>

(***************************************************************************)
(* Specification of the sanitizer: any text, cleaned once and then again.  *)
(***************************************************************************)
InitSanitize ==
    /\ variant = "webhook"
    /\ text \in InputTexts
    /\ cleaned = NoText
    /\ passes = 0
    /\ ExtractIdle
    /\ RiskIdle
    /\ BotIdle

CleanOnce ==
    /\ passes = 0
    /\ cleaned' = clean_json_response(text)
    /\ passes' = 1
    /\ UNCHANGED <<variant, text, extVars, riskVars, botVars>>

CleanAgain ==
    /\ passes = 1
    /\ cleaned' = clean_json_response(cleaned)
    /\ passes' = 2
    /\ UNCHANGED <<variant, text, extVars, riskVars, botVars>>

NextSanitize == CleanOnce \/ CleanAgain

SpecSanitize == InitSanitize /\ [][NextSanitize]_vars

(***************************************************************************)
(* Specification of the field completion: either bot, any parsed response. *)
(***************************************************************************)
InitExtract ==
    /\ variant \in Variants
    /\ parsed \in ParsedValues
    /\ extracted = NoResult
    /\ SanitizeIdle
    /\ RiskIdle
    /\ BotIdle

Complete ==
    /\ extracted = NoResult
    /\ extracted' = complete(variant, parsed)
    /\ UNCHANGED <<variant, parsed, sanVars, riskVars, botVars>>

NextExtract == Complete

SpecExtract == InitExtract /\ [][NextExtract]_vars

(***************************************************************************)
(* Specification of the risk rules: either bot, any record, any total.     *)
(***************************************************************************)
InitRisk ==
    /\ variant \in Variants
    /\ trade_data \in TradeRecords
    /\ today_pnl \in DailyTotals
    /\ risk_check = NoDecision
    /\ SanitizeIdle
    /\ ExtractIdle
    /\ BotIdle

Validate ==
    /\ risk_check = NoDecision
    /\ risk_check' = validate_trade(variant, trade_data, today_pnl)
    /\ UNCHANGED <<variant, trade_data, today_pnl, sanVars, extVars, botVars>>

NextRisk == Validate

SpecRisk == InitRisk /\ [][NextRisk]_vars

(***************************************************************************)
(* Specification of the bot: either program, MaxMsgs trade messages.       *)
(***************************************************************************)
Init ==
    /\ variant \in Variants
    /\ ledger \in InitialLedgers
    /\ running = {}
    /\ pc = [m \in Msgs |-> "pending"]
    /\ attempt = [m \in Msgs |-> 0]
    /\ oracle_log = [m \in Msgs |-> <<>>]
    /\ loaded = [m \in Msgs |-> NoParsed]
    /\ extract_result = [m \in Msgs |-> NoResult]
    /\ verdict = [m \in Msgs |-> NoDecision]
    /\ error = [m \in Msgs |-> ""]
    /\ outcome = [m \in Msgs |-> "none"]
    /\ replies = [m \in Msgs |-> <<>>]
    /\ SanitizeIdle
    /\ ExtractIdle
    /\ RiskIdle

Next ==
    \/ \E m \in Msgs : Receive(m)
    \/ \E m \in Msgs : Resume(m)
    \/ \E m \in Msgs : OracleCall(m)
    \/ \E m \in Msgs : RiskCheck(m)
    \/ \E m \in Msgs : AppendTrade(m)
    \/ \E m \in Msgs : Reply(m)

Spec == Init /\ [][Next]_vars

(***************************************************************************)
(* Properties.                                                             *)
(***************************************************************************)
RowFor(m) == \E i \in 1..Len(ledger) : ledger[i].raw_message = m
Decided(m) == pc[m] \in {"reply", "done"}
ExtractionSucceeded(m) == extract_result[m] # NoResult
Allowed(m) == verdict[m] # NoDecision /\ verdict[m].valid

\* C1 as stated: once a message is decided, it has a row in the ledger if and
\* only if its extraction succeeded and its risk decision is allowed, and a
\* blocked message has none.
C1_AsStated ==
    \A m \in Msgs :
        /\ Decided(m) => (RowFor(m) <=> (ExtractionSucceeded(m) /\ Allowed(m)))
        /\ outcome[m] = "blocked" => ~RowFor(m)

C1_LedgerRule ==
    \A m \in Msgs :
        /\ RowFor(m) => (ExtractionSucceeded(m) /\ Allowed(m))
        /\ Decided(m) =>
              (RowFor(m) <=> (ExtractionSucceeded(m) /\ Allowed(m) /\ error[m] = ""))

\* C1, amended: a message has a row in the ledger if and only if its extraction
\* succeeded, its risk decision is allowed and the append itself did not fail;
\* the step that decides to block a message leaves the ledger exactly as it was.
C1_Amended ==
    [][/\ C1_LedgerRule'
       /\ \A m \in Msgs :
             (outcome[m] = "none" /\ outcome'[m] = "blocked") => ledger' = ledger]_vars

\* one message logged, and a later one blocked with the ledger holding no row of it
C1_Witness ==
    \E m, o \in Msgs :
        /\ outcome[m] = "blocked" /\ ~RowFor(m) /\ ~verdict[m].valid
        /\ outcome[o] = "logged" /\ RowFor(o)

HasDecision(r) == r # NoDecision /\ r.raised = ""

\* C2: validate_trade returns today_pnl = prior total + profitLoss whether it
\* allows or blocks, and valid = false exactly when that projected total is
\* strictly below MAX_LOSS_PER_DAY (a total equal to the limit is allowed).
C2_ProjectedTotal ==
    HasDecision(risk_check) =>
        LET projected == today_pnl + trade_data["profit_loss"].n
        IN /\ risk_check.today_pnl = projected
           /\ risk_check.valid = ~(projected < MAX_LOSS_PER_DAY)
           /\ projected = MAX_LOSS_PER_DAY => risk_check.valid

\* a trade over the per-trade limit, with an adverse emotion, that lands exactly
\* on the daily limit and is allowed
C2_Witness ==
    /\ HasDecision(risk_check)
    /\ risk_check.valid
    /\ today_pnl + trade_data["profit_loss"].n = MAX_LOSS_PER_DAY
    /\ trade_data["profit_loss"].n < MAX_LOSS_PER_TRADE
    /\ trade_data["emotion"] = Str("Revenge")

\* the findings of the four rules as the specification words them
ExpectedWarnings(d, prior) ==
    LET pnl == d["profit_loss"].n
        capital == d["capital_invested"]
        emotion == d["emotion"]
    IN (IF pnl < MAX_LOSS_PER_TRADE THEN <<"trade_loss">> ELSE <<>>)
       \o (IF prior + pnl < MAX_LOSS_PER_DAY THEN <<"daily_breach", "stop_trading">> ELSE <<>>)
       \o (IF IsNum(capital) /\ capital.n > 0 /\ Abs(pnl) * 100 > MAX_RISK_PCT * TRADING_CAPITAL
           THEN <<"risk_pct">> ELSE <<>>)
       \o (IF emotion.k = "str" /\ emotion.s \in {"FOMO", "Revenge", "Fear", "Greed"}
           THEN <<"emotion">> ELSE <<>>)

\* C3: the warnings are the in-order findings of the four rules, in both bots,
\* and the stop-trading directive is there exactly when the decision blocks.
C3_FourRules ==
    HasDecision(risk_check) =>
        /\ risk_check.warnings = ExpectedWarnings(trade_data, today_pnl)
        /\ (\E i \in 1..Len(risk_check.warnings) : risk_check.warnings[i] = "stop_trading")
              <=> ~risk_check.valid

\* C4: at most 2 oracle invocations per message; an invocation is followed by
\* another only if its response failed to parse; two parse failures end extract
\* with the parse error and no record.
C4_RetryBudget ==
    \A m \in Msgs :
        /\ Len(oracle_log[m]) <= 2
        /\ \A i \in 1..(Len(oracle_log[m]) - 1) : oracle_log[m][i] = "garbage"
        /\ oracle_log[m] = <<"garbage", "garbage">> =>
              /\ Decided(m)
              /\ error[m] = parse_error(variant)
              /\ ~ExtractionSucceeded(m)
              /\ ~RowFor(m)

\* two parse failures in a row, and also a retry that succeeded
C4_Witness ==
    \E m, o \in Msgs :
        /\ oracle_log[m] = <<"garbage", "garbage">> /\ error[m] = "JSONDecodeError"
        /\ oracle_log[o] = <<"garbage", "json">> /\ ExtractionSucceeded(o)

\* C5: a response that parses to a list is completed from its first element;
\* an empty list makes extract fail, with no record and no row for the message.
C5_ListResponse ==
    \A m \in Msgs :
        loaded[m].kind = "list" =>
            IF loaded[m].items # <<>>
            THEN /\ ExtractionSucceeded(m)
                 /\ extract_result[m] = complete(variant, ParsedDict(loaded[m].items[1]))
            ELSE /\ ~ExtractionSucceeded(m)
                 /\ outcome[m] = "error"
                 /\ ~RowFor(m)

Completed == extracted # NoResult /\ parsed.kind = "dict"
Given == parsed.items[1]
AllPresent(d) ==
    Truthy(get(d, "buy_price")) /\ Truthy(get(d, "sell_price")) /\ Truthy(get(d, "quantity"))

\* C6: with no profit/loss extracted and buy price, sell price and quantity all
\* present, profitLoss is round((sell - buy) * quantity, 2) for a Long and
\* round((buy - sell) * quantity, 2) for a Short.
C6_DirectionalPnl ==
    (Completed /\ get(Given, "profit_loss") = Null /\ AllPresent(Given)) =>
        LET long == round2((Given["sell_price"].n - Given["buy_price"].n) * Given["quantity"].n)
            short == round2((Given["buy_price"].n - Given["sell_price"].n) * Given["quantity"].n)
        IN /\ extracted.raised = ""
           /\ Given["trade_direction"] = Str("Long") => extracted.value["profit_loss"] = Num(long)
           /\ Given["trade_direction"] = Str("Short") =>
                 extracted.value["profit_loss"] = Num(short)

C8_NumericPnl ==
    (Completed /\ extracted.raised = "") =>
        /\ IsNum(extracted.value["profit_loss"])
        /\ (get(Given, "profit_loss") = Null /\ ~AllPresent(Given)) =>
              extracted.value["profit_loss"] = Num(0)

DefaultOf(v, key) ==
    IF key = "symbol" THEN Str("UNKNOWN")
    ELSE IF key = "instrument_type" THEN Str("Equity")
    ELSE IF v = "polling" THEN Str("Unknown") ELSE Str("Long")

\* C9: symbol, instrument_type and trade_direction, when absent or null in the
\* mapping, are replaced by their defaults, so none of them is null afterwards.
C9_DefaultsReplaceNull ==
    (Completed /\ extracted.raised = "") =>
        \A key \in {"symbol", "instrument_type", "trade_direction"} :
            /\ Given[key] \in {Absent, Null} => extracted.value[key] = DefaultOf(variant, key)
            /\ extracted.value[key] \notin {Absent, Null}

RECURSIVE Depth(_, _)
Depth(t, i) ==
    IF i = 0 THEN 0
    ELSE Depth(t, i - 1) + (IF t[i] = "{" THEN 1 ELSE IF t[i] = "}" THEN -1 ELSE 0)

RECURSIVE PrevNonSpace(_, _)
PrevNonSpace(t, i) ==
    IF i < 1 THEN "bof" ELSE IF t[i] = " " THEN PrevNonSpace(t, i - 1) ELSE t[i]

\* o is one JSON object: a balanced pair of braces around members; a comma
\* follows a value and precedes a member or, as a trailing comma, the closing
\* brace; a fence, a json tag or a bracket inside it is inside a string.
IsJsonObject(o) ==
    /\ Len(o) >= 2
    /\ o[1] = "{" /\ o[Len(o)] = "}"
    /\ Depth(o, Len(o)) = 0
    /\ \A i \in 1..(Len(o) - 1) : Depth(o, i) >= 1
    /\ \A i \in 2..(Len(o) - 1) :
          /\ o[i] \in {"F", "J", "]"} => (o[i - 1] = "x" /\ o[i + 1] = "x")
          /\ o[i] = "," => /\ PrevNonSpace(o, i - 1) \in {"x", "}"}
                           /\ next_non_space(o, i + 1) \in {"x", "{", "}"}

NoBraces(t) == \A i \in 1..Len(t) : t[i] \notin {"{", "}"}

\* t contains exactly one JSON object, whatever surrounds it
OneJsonObject(t) ==
    \E a, b \in 1..Len(t) :
        /\ a < b
        /\ IsJsonObject(SubSeq(t, a, b))
        /\ NoBraces(SubSeq(t, 1, a - 1))
        /\ NoBraces(SubSeq(t, b + 1, Len(t)))

\* C10: on a text that contains exactly one JSON object, cleaning the cleaned
\* text again returns it unchanged.
C10_Idempotent ==
    (passes = 2 /\ OneJsonObject(text)) => cleaned = clean_json_response(text)

\* the first opening brace of t, and the closing braces after it at which the
\* depth counted from it is back to zero
FirstOpen(t) == CHOOSE a \in 1..Len(t) : t[a] = "{" /\ \A j \in 1..(a - 1) : t[j] # "{"
Matches(t) ==
    IF NoBraces(t) \/ \A i \in 1..Len(t) : t[i] # "{" THEN {}
    ELSE {b \in FirstOpen(t)..Len(t) :
             t[b] = "}" /\ Depth(t, b) = Depth(t, FirstOpen(t) - 1)}

FirstBraceMatched(t) == Matches(t) # {}

\* the span from the first opening brace to the first closing brace that
\* brings the depth back to zero
MatchedSpan(t) ==
    SubSeq(t, FirstOpen(t), CHOOSE b \in Matches(t) : \A c \in Matches(t) : b <= c)

\* C11 as stated: whenever the first opening brace of the text given to
\* clean_json_response has a matching closing brace, the result is that span
\* (with its trailing commas repaired).
C11_AsStated ==
    (passes = 1 /\ FirstBraceMatched(text)) =>
        cleaned = remove_trailing_commas(MatchedSpan(text))

\* C11, amended: the same of the text as it stands after fence selection, which
\* is the text itself when there is no fence or no fenced part is selected.
C11_SpanAfterFenceSelection ==
    (passes = 1 /\ FirstBraceMatched(remove_code_blocks(text))) =>
        cleaned = remove_trailing_commas(MatchedSpan(remove_code_blocks(text)))

\* noise, an object with a nested object, prose: the span is kept whole
C11_Witness ==
    /\ passes = 1
    /\ text = <<"x", "{", "{", "}", "}", "x">>
    /\ cleaned = <<"{", "{", "}", "}">>

FinalReplies == {"logged", "blocked", "error"}

\* C12: every handled message gets, after the "Processing..." notice, exactly
\* one final reply: logged (only with its row in the ledger), blocked (no row)
\* or error; a failed extraction, a failed risk check and a failed append all
\* end in the error reply, never in none and never in the logged one; and a
\* handler that has not replied yet can always go on.
C12_OneOutcome ==
    /\ \A m \in Msgs :
        /\ \A i \in 1..Len(replies[m]) :
              /\ replies[m][i] \in FinalReplies => i = 2
              /\ replies[m][i] = "logged" => RowFor(m)
              /\ replies[m][i] = "blocked" => (~RowFor(m) /\ ~verdict[m].valid)
        /\ pc[m] = "done" =>
              /\ Len(replies[m]) = 2
              /\ replies[m][1] = "processing"
              /\ replies[m][2] \in FinalReplies
              /\ error[m] # "" => replies[m][2] = "error"
              /\ ~ExtractionSucceeded(m) => replies[m][2] = "error"
              /\ (Allowed(m) /\ ~RowFor(m)) => replies[m][2] = "error"
    /\ (\A m \in Msgs : pc[m] = "done") \/ ENABLED Next

\* one message whose append failed got the error reply, another was logged
C12_Witness ==
    \E m, o \in Msgs :
        /\ pc[m] = "done" /\ Allowed(m) /\ ~RowFor(m)
        /\ error[m] = "APIError" /\ replies[m] = <<"processing", "error">>
        /\ pc[o] = "done" /\ replies[o] = <<"processing", "logged">> /\ RowFor(o)

NoOpenBrace(t) == \A i \in 1..Len(t) : t[i] # "{"

\* some piece between the fences starts, once stripped, with the json tag
TaggedPart(t) ==
    /\ \E i \in 1..Len(t) : t[i] = "F"
    /\ \E i \in 1..Len(split(t, "F")) : startswith(strip(split(t, "F")[i]), "J")

\* C13 as stated: a text with no opening brace after fence selection, fences
\* and json tag included, is returned as it came in.
C13_AsStated ==
    (passes = 1 /\ NoOpenBrace(remove_code_blocks(text))) => cleaned = text

\* C13, amended: a text with no opening brace after fence selection is
\* returned as fence selection left it, neither sliced nor comma-repaired: the
\* input itself unless a fenced part with the json tag was selected, and then
\* that part without its fences and tag.
C13_FenceSelectedUnchanged ==
    (passes = 1 /\ NoOpenBrace(remove_code_blocks(text))) =>
        /\ cleaned = remove_code_blocks(text)
        /\ ~TaggedPart(text) => cleaned = text
        /\ TaggedPart(text) => (cleaned # text /\ \A i \in 1..Len(cleaned) : cleaned[i] # "F")

\* a fenced, tagged text without a brace and with a trailing comma comes back
\* without fence and tag, comma kept
C13_Witness ==
    /\ passes = 1
    /\ text = <<"F", "J", "x", ",", "]">>
    /\ cleaned = <<"x", ",", "]">>

\* the handlers that went through the risk check and are past their append
RiskChecked == {m \in Msgs : Decided(m) /\ ExtractionSucceeded(m)}

Orders(D) ==
    {s \in [1..Cardinality(D) -> D] : \A i, j \in 1..Cardinality(D) : i # j => s[i] # s[j]}

\* the rows the worksheet held before the first message
StartLedger == SelectSeq(ledger, LAMBDA r : r.raw_message \notin Msgs)

\* handling the messages s[k], s[k+1], ... one at a time from the ledger led
\* gives the decisions recorded and ends with the ledger as it is
RECURSIVE OneAtATime(_, _, _)
OneAtATime(s, k, led) ==
    IF k > Len(s) THEN led = ledger
    ELSE \E read_fails \in BOOLEAN :
            LET m == s[k]
                rc == validate_trade(variant, extract_result[m].value,
                                     get_today_pnl(led, read_fails))
            IN IF rc.raised # ""
               THEN verdict[m] = NoDecision /\ OneAtATime(s, k + 1, led)
               ELSE /\ verdict[m] = rc
                    /\ OneAtATime(s, k + 1,
                                  IF rc.valid /\ RowFor(m)
                                  THEN Append(led, trade_row(extract_result[m].value, m))
                                  ELSE led)

Serializable == \E s \in Orders(RiskChecked) : OneAtATime(s, 1, StartLedger)

\* between a handler's read of the total and the end of its append no other
\* handler takes a step, and the only row added is its own
Uninterrupted ==
    \A m \in Msgs :
        pc[m] \in {"risk", "save"} =>
            /\ \A o \in Msgs \ {m} : pc'[o] = pc[o] /\ verdict'[o] = verdict[o]
            /\ ledger' # ledger =>
                  ledger' = Append(ledger, trade_row(extract_result[m].value, m))

\* two rows of today that are each within the daily limit and together beyond it
JointBreach(i, j) ==
    /\ ledger[i].Date = Today /\ ledger[j].Date = Today
    /\ ledger[i].PnL.n >= MAX_LOSS_PER_DAY /\ ledger[j].PnL.n >= MAX_LOSS_PER_DAY
    /\ ledger[i].PnL.n + ledger[j].PnL.n < MAX_LOSS_PER_DAY

\* C14 as stated, its last clause: of two webhook handlers that were in flight
\* together (both now await their final reply), two trades that only jointly
\* breach the daily limit are never both in the ledger.
C14_AsStated ==
    \A i, j \in 1..Len(ledger) :
        (/\ variant = "webhook" /\ i < j
         /\ ledger[i].raw_message \in Msgs /\ ledger[j].raw_message \in Msgs
         /\ pc[ledger[i].raw_message] = "reply" /\ pc[ledger[j].raw_message] = "reply")
        => ~JointBreach(i, j)

\* row j, dated today, leaves today's total below the daily limit
BreachingRow(j) ==
    /\ ledger[j].raw_message \in Msgs
    /\ ledger[j].Date = Today
    /\ sum_today(SubSeq(ledger, 1, j)) < MAX_LOSS_PER_DAY

\* the total the handler of row j worked with was not the ledger's but the 0.0
\* of a failed read
FellBack(j) ==
    /\ verdict[ledger[j].raw_message].today_pnl = ledger[j].PnL.n
    /\ sum_today(SubSeq(ledger, 1, j - 1)) # 0

\* C14, amended: in either bot, however the handlers interleave, each handler's
\* read, decision and append run with no step of another handler in between;
\* the decisions and the ledger are those of handling the same messages one at
\* a time in some order; and a trade that takes today's total below the daily
\* limit (the later of two trades that only jointly breach it) is in the ledger
\* only when the read of its handler failed and its total fell back to 0.0.
C14_Serialized ==
    /\ [](Serializable /\ \A j \in 1..Len(ledger) : BreachingRow(j) => FellBack(j))
    /\ [][Uninterrupted]_vars

\* two webhook handlers await their final reply at the same time: the first
\* logged, the second, which read the first one's row, blocked
C14_Witness ==
    \E m, o \in Msgs :
        /\ variant = "webhook" /\ m # o
        /\ pc[m] = "reply" /\ outcome[m] = "logged" /\ RowFor(m)
        /\ pc[o] = "reply" /\ outcome[o] = "blocked"
        /\ verdict[o].today_pnl < MAX_LOSS_PER_DAY

\* the total the handler of m added its P&L to
TotalUsed(m) == verdict[m].today_pnl - extract_result[m].value["profit_loss"].n

\* every row of a message was appended by a handler that worked with the
\* ledger's own total of today
ReadsTrue ==
    \A j \in 1..Len(ledger) :
        ledger[j].raw_message \in Msgs =>
            TotalUsed(ledger[j].raw_message) = sum_today(SubSeq(ledger, 1, j - 1))

\* C15 as stated: with the messages handled one at a time (the polling bot),
\* failed reads included, today's rows never sum to less than MAX_LOSS_PER_DAY.
C15_AsStated ==
    variant = "polling" => sum_today(ledger) >= MAX_LOSS_PER_DAY

\* an append takes today's total below the limit only on the 0.0 of a failed
\* read, when the ledger's own total was something else
FallbackOnly ==
    \A m \in Msgs :
        (pc[m] = "save" /\ ledger' # ledger /\ sum_today(ledger') < MAX_LOSS_PER_DAY) =>
            (TotalUsed(m) = 0 /\ sum_today(ledger) # 0)

\* C15, amended: starting from a ledger with no rows dated today, as long as
\* every handler that appended a row read the ledger's total, today's rows
\* never sum to less than MAX_LOSS_PER_DAY; an append takes the sum below it
\* only when the read failed and the total fell back to 0.0.
C15_LimitUnlessFallback ==
    /\ [](ReadsTrue => sum_today(ledger) >= MAX_LOSS_PER_DAY)
    /\ [][FallbackOnly]_vars

\* the polling bot logged one loss and then blocked the one that would have
\* taken today's total below the limit
C15_Witness ==
    \E m, o \in Msgs :
        /\ variant = "polling" /\ ReadsTrue
        /\ pc[m] = "done" /\ outcome[m] = "logged"
        /\ pc[o] = "done" /\ outcome[o] = "blocked"
        /\ sum_today(ledger) < 0 /\ sum_today(ledger) >= MAX_LOSS_PER_DAY
        /\ verdict[o].today_pnl < MAX_LOSS_PER_DAY

====
